---- MODULE Spec2Model ----
(***************************************************************************)
(* financial-viewer: the query endpoint GET /api/financial                 *)
(* (src/app/api/financial/route.ts) and the fetch/display cycle of the     *)
(* view (src/components/FinancialViewer.tsx, the FinancialViewer component *)
(* of lines 229-432).                                                      *)
(*                                                                         *)
(* JavaScript values are tagged records: Undef (undefined), Null, Num(n),  *)
(* Str(s), Array(s).  A JavaScript string that the code inspects (the      *)
(* ticker, the company name) is a sequence of one-character strings, so    *)
(* that toUpperCase is a real conversion; fixed messages are TLA+ strings. *)
(* A ratio is an integer number of hundredths, so x * 100 is exact.        *)
(***************************************************************************)
EXTENDS Integers, Sequences, FiniteSets, TLC

(***************************************************************************)
(* Bounds of the model.                                                    *)
(***************************************************************************)
MaxSymLen == 2        \* longest ticker typed or sent
MaxNum == 1           \* provider numbers range over -MaxNum..MaxNum
MaxTs == 2            \* period-end timestamps 0..MaxTs, two per calendar day
MaxStatements == 2    \* longest statement list of a bundle
MaxHistory == 2       \* settled fetches of the view that its history remembers

(***************************************************************************)
(* JavaScript values.                                                      *)
(***************************************************************************)
Undef == [undef |-> TRUE]
Null == [null |-> TRUE]
Num(n) == [num |-> n]
Str(s) == [str |-> s]
Array(s) == [array |-> s]

Nums == (0 - MaxNum)..MaxNum
NumVals == {Num(n) : n \in Nums}

\* The values JavaScript treats as false in `x || y`, `x ? a : b` and `!x`.
Falsy(v) == v \in {Undef, Null, Num(0), Str(<<>>)}

\* `v` where the code has `v || null`.
OrNullOmitted(v) == v

\* `v || null`
OrNull(v) == IF Falsy(v) THEN Null ELSE v

\* `obj?.field`: undefined when obj is undefined or null.
Opt(obj, field) == IF obj \in {Undef, Null} THEN Undef ELSE obj[field]

(***************************************************************************)
(* Ticker symbols.                                                         *)
(***************************************************************************)
Chars == {"a", "A"}

RECURSIVE StringsUpTo(_)
StringsUpTo(n) ==
  IF n = 0 THEN {<<>>}
  ELSE LET shorter == StringsUpTo(n - 1)
       IN  shorter \cup {Append(s, c) : s \in {t \in shorter : Len(t) = n - 1}, c \in Chars}

Symbols == StringsUpTo(MaxSymLen)

\* searchParams.get('symbol'): null when the parameter is missing.
SymbolParams == {Null} \cup {Str(s) : s \in Symbols}

UpperChar(c) == IF c = "a" THEN "A" ELSE c

\* String.prototype.toUpperCase
toUpperCase(s) == [i \in 1..Len(s) |-> UpperChar(s[i])]

(***************************************************************************)
(* Provider data: what yahooFinance.quote and yahooFinance.quoteSummary    *)
(* resolve with.  A field the provider leaves out reads as Undef.          *)
(***************************************************************************)
QuoteNumFields == {"regularMarketPrice", "regularMarketChangePercent", "regularMarketVolume",
                   "regularMarketPreviousClose", "regularMarketDayHigh", "regularMarketDayLow",
                   "averageDailyVolume3Month", "marketCap"}
QuoteFields == QuoteNumFields \cup {"longName"}

SummaryDetailFields == {"trailingPE", "fiftyTwoWeekLow", "fiftyTwoWeekHigh", "dividendYield"}
KeyStatisticsFields == {"trailingEps", "beta", "priceToBook"}
FinancialDataFields == {"profitMargins", "totalRevenue"}
AssetProfileFields == {"sector", "industry"}

\* The metrics of a provider statement record: the four the endpoint reads,
\* one more of the view's metric list, and one neither of them knows.
ReadMetrics == {"totalRevenue", "grossProfit", "operatingIncome", "netIncome"}
StatementMetrics == ReadMetrics \cup {"ebitda", "costOfRevenue"}
StatementFields == StatementMetrics \cup {"endDate"}

\* A company name and a sector name of the provider.
SomeName == Str(<<"X">>)

EmptyQuote == [k \in QuoteFields |-> Undef]
FullQuote(n) == [k \in QuoteFields |-> IF k = "longName" THEN SomeName ELSE Num(n)]

\* Quotes with at most one field populated, and the fully populated ones.
QuoteObjs ==
  {EmptyQuote}
    \cup {[EmptyQuote EXCEPT ![k] = v] : k \in QuoteNumFields, v \in NumVals}
    \cup {[EmptyQuote EXCEPT !["longName"] = v] : v \in {Str(<<>>), SomeName}}
    \cup {FullQuote(n) : n \in Nums}

EmptyModule(fields) == [k \in fields |-> Undef]
FullModule(fields, v) == [k \in fields |-> v]

\* Period-end timestamps: Undef (the record has no endDate) or a Date.
EndDates == {Undef} \cup {Num(t) : t \in 0..MaxTs}

\* Statement records: no metric, every metric (all 0, or all MaxNum), only
\* the metrics the endpoint reads, only the others.
MetricObjs ==
  {[k \in StatementMetrics |-> Undef],
   [k \in StatementMetrics |-> Num(0)],
   [k \in StatementMetrics |-> Num(MaxNum)],
   [k \in StatementMetrics |-> IF k \in ReadMetrics THEN Num(0 - MaxNum) ELSE Undef],
   [k \in StatementMetrics |-> IF k \in ReadMetrics THEN Undef ELSE Num(MaxNum)]}

StatementObjs ==
  {[k \in StatementFields |-> IF k = "endDate" THEN d ELSE m[k]] : d \in EndDates, m \in MetricObjs}

RECURSIVE SeqsUpTo(_, _)
SeqsUpTo(S, n) ==
  IF n = 0 THEN {<<>>}
  ELSE LET shorter == SeqsUpTo(S, n - 1)
       IN  shorter \cup {Append(s, x) : s \in {t \in shorter : Len(t) = n - 1}, x \in S}

\* summary.incomeStatementHistory / summary.incomeStatementHistoryQuarterly:
\* absent, present without its list, or present with a list of records.
Bundle(list) == [incomeStatementHistory |-> list]
AbsentBundles == {Undef, Bundle(Undef)}
Bundles == AbsentBundles \cup {Bundle(Array(l)) : l \in SeqsUpTo(StatementObjs, MaxStatements)}

Summary(sd, ks, fd, ap, q, a) ==
  [summaryDetail |-> sd, defaultKeyStatistics |-> ks, financialData |-> fd,
   assetProfile |-> ap, incomeStatementHistoryQuarterly |-> q, incomeStatementHistory |-> a]

EmptySummary == Summary(Undef, Undef, Undef, Undef, Undef, Undef)
FullSummary(n, q, a) ==
  Summary(FullModule(SummaryDetailFields, Num(n)), FullModule(KeyStatisticsFields, Num(n)),
          FullModule(FinancialDataFields, Num(n)), FullModule(AssetProfileFields, SomeName), q, a)

\* A statement list with one valid record, used where the other bundle varies.
OneStatement == <<[k \in StatementFields |-> Num(MaxNum)]>>

\* The forms of the bundle that is held fixed while the other one varies.
FixedBundles == {Undef, Bundle(Array(<<>>)), Bundle(Array(OneStatement))}

OneField(fields, vals) ==
  {EmptyModule(fields)} \cup {[EmptyModule(fields) EXCEPT ![k] = v] : k \in fields, v \in vals}

\* Summaries with one module present, holding at most one field.
LeafSummaries ==
  {EmptySummary}
    \cup {[EmptySummary EXCEPT !.summaryDetail = m] : m \in OneField(SummaryDetailFields, NumVals)}
    \cup {[EmptySummary EXCEPT !.defaultKeyStatistics = m] : m \in OneField(KeyStatisticsFields, NumVals)}
    \cup {[EmptySummary EXCEPT !.financialData = m] : m \in OneField(FinancialDataFields, NumVals)}
    \cup {[EmptySummary EXCEPT !.assetProfile = m] : m \in OneField(AssetProfileFields, {Str(<<>>), SomeName})}

\* Summaries with every module fully populated.
FullSummaries == {FullSummary(n, q, a) : n \in Nums, q \in FixedBundles, a \in FixedBundles}

\* A summary that holds nothing but its two statement bundles.
BundleSummary(q, a) ==
  [EmptySummary EXCEPT !.incomeStatementHistoryQuarterly = q, !.incomeStatementHistory = a]

(***************************************************************************)
(* The transformation of GET, route.ts lines 42-107.                       *)
(***************************************************************************)
\* An exception or rejection reason: an Error with a message, or another value.
Error(msg) == [isError |-> TRUE, message |-> msg]
NonError == [isError |-> FALSE, message |-> ""]

\* new Date(endDate).toISOString() throws a RangeError on an invalid date;
\* new Date(undefined) is invalid, new Date(null) is the epoch.
ValidDate(endDate) == endDate # Undef
TimeOf(endDate) == IF endDate = Null THEN 0 ELSE endDate.num

\* toISOString().split('T')[0]: the UTC calendar date of a timestamp, the
\* time of day dropped.  Timestamps count half days, so the date "YYYY-MM-DD"
\* is identified with its day number.
isoDate(endDate) == TimeOf(endDate) \div 2

\* The object literal of lines 46-51 (and 59-64).
StatementEntry(statement) ==
  [totalRevenue |-> OrNull(statement.totalRevenue),
   grossProfit |-> OrNull(statement.grossProfit),
   operatingIncome |-> OrNull(statement.operatingIncome),
   netIncome |-> OrNull(statement.netIncome)]

\* acc[date] = entry on an object whose keys keep their insertion order: an
\* existing key keeps its place and takes the new value.
Assign(acc, date, entry) ==
  IF \E i \in 1..Len(acc) : acc[i].date = date
  THEN [i \in 1..Len(acc) |-> IF acc[i].date = date THEN [date |-> date, entry |-> entry] ELSE acc[i]]
  ELSE Append(acc, [date |-> date, entry |-> entry])

\* statements.reduce((acc, statement) => ..., {}) of lines 44-53 and 57-66:
\* the mapping built, or the exception thrown on the way.
RECURSIVE reduceStatements(_, _)
reduceStatements(acc, statements) ==
  IF statements = <<>> THEN [threw |-> FALSE, value |-> acc]
  ELSE LET statement == Head(statements)
       IN  IF ~ValidDate(statement.endDate)
           THEN [threw |-> TRUE, error |-> Error("Invalid time value")]
           ELSE reduceStatements(Assign(acc, isoDate(statement.endDate), StatementEntry(statement)),
                                 Tail(statements))

\* `bundle?.incomeStatementHistory` without the `|| []`.
statementsOfNoDefault(bundle) == Opt(bundle, "incomeStatementHistory")

\* `bundle?.incomeStatementHistory || []` of lines 43 and 56.
statementsOf(bundle) ==
  LET list == Opt(bundle, "incomeStatementHistory")
  IN  IF Falsy(list) THEN Array(<<>>) ELSE list

\* statements.reduce(...): a TypeError when statements is not an array.
reduce(statements) ==
  IF statements \in {Undef, Null}
  THEN [threw |-> TRUE, error |-> Error("Cannot read properties of undefined (reading 'reduce')")]
  ELSE reduceStatements(<<>>, statements.array)

\* `x ? (x * 100) : null` of lines 82-84 and 92-94.
toPercent(x) == IF Falsy(x) THEN Null ELSE Num(x.num * 100)

\* The quote fields with `??` in place of `||`: only null and undefined give
\* way to null.
quoteOutNullish(quote) ==
  LET orNull(v) == IF v \in {Undef, Null} THEN Null ELSE v
  IN  [price |-> orNull(quote.regularMarketPrice),
       changePercent |-> orNull(quote.regularMarketChangePercent),
       volume |-> orNull(quote.regularMarketVolume),
       previousClose |-> orNull(quote.regularMarketPreviousClose),
       dayHigh |-> orNull(quote.regularMarketDayHigh),
       dayLow |-> orNull(quote.regularMarketDayLow),
       averageVolume |-> orNull(quote.averageDailyVolume3Month)]

\* Lines 69-77.
quoteOut(quote) ==
  [price |-> OrNull(quote.regularMarketPrice),
   changePercent |-> OrNull(quote.regularMarketChangePercent),
   volume |-> OrNull(quote.regularMarketVolume),
   previousClose |-> OrNull(quote.regularMarketPreviousClose),
   dayHigh |-> OrNull(quote.regularMarketDayHigh),
   dayLow |-> OrNull(quote.regularMarketDayLow),
   averageVolume |-> OrNull(quote.averageDailyVolume3Month)]

\* `quote.longName || symbol.toUpperCase()`.
companyNameUpper(sym, quote) ==
  IF Falsy(quote.longName) THEN Str(toUpperCase(sym.str)) ELSE quote.longName

\* `quote.longName || symbol` of line 88.
companyName(sym, quote) == IF Falsy(quote.longName) THEN sym ELSE quote.longName

\* Lines 78-96.
fundamentalsOut(sym, quote, summary) ==
  [marketCap |-> OrNull(quote.marketCap),
   peRatio |-> OrNull(Opt(summary.summaryDetail, "trailingPE")),
   eps |-> OrNull(Opt(summary.defaultKeyStatistics, "trailingEps")),
   profitMargin |-> toPercent(Opt(summary.financialData, "profitMargins")),
   revenue |-> OrNull(Opt(summary.financialData, "totalRevenue")),
   fiftyTwoWeekLow |-> OrNull(Opt(summary.summaryDetail, "fiftyTwoWeekLow")),
   fiftyTwoWeekHigh |-> OrNull(Opt(summary.summaryDetail, "fiftyTwoWeekHigh")),
   companyName |-> companyName(sym, quote),
   sector |-> OrNull(Opt(summary.assetProfile, "sector")),
   industry |-> OrNull(Opt(summary.assetProfile, "industry")),
   beta |-> OrNull(Opt(summary.defaultKeyStatistics, "beta")),
   dividendYield |-> toPercent(Opt(summary.summaryDetail, "dividendYield")),
   priceToBook |-> OrNull(Opt(summary.defaultKeyStatistics, "priceToBook"))]

\* JSON.stringify of an object: a property whose value is undefined is left out.
jsonObject(obj) == [k \in {f \in DOMAIN obj : obj[f] # Undef} |-> obj[k]]

jsonStatements(mapping) ==
  [i \in 1..Len(mapping) |-> [date |-> mapping[i].date, entry |-> jsonObject(mapping[i].entry)]]

\* Lines 42-109: the body NextResponse.json(transformedData) sends, or the
\* exception thrown while building it.
transformedData(sym, quote, summary) ==
  LET transformedQuarterly == reduce(statementsOf(summary.incomeStatementHistoryQuarterly))
      transformedAnnual == reduce(statementsOf(summary.incomeStatementHistory))
  IN  IF transformedQuarterly.threw THEN transformedQuarterly
      ELSE IF transformedAnnual.threw THEN transformedAnnual
      ELSE [threw |-> FALSE,
            value |-> [quote |-> jsonObject(quoteOut(quote)),
                       fundamentals |-> jsonObject(fundamentalsOut(sym, quote, summary)),
                       financials |->
                         [financial_statements |->
                            [quarterly |-> [income_statement |-> jsonStatements(transformedQuarterly.value)],
                             annual |-> [income_statement |-> jsonStatements(transformedAnnual.value)]]]]]

(***************************************************************************)
(* The responses of GET.                                                   *)
(***************************************************************************)
NoResponse == [status |-> 0]

\* Lines 21-24.
BadRequest == [status |-> 400, body |-> [error |-> "Stock symbol is required"]]

\* Line 109.
Ok(body) == [status |-> 200, body |-> body]

\* A catch block that reports error.message whatever was thrown.
ServerErrorMessageOnly(error) ==
  [status |-> 500,
   body |-> [error |-> "Failed to fetch stock data", details |-> error.message]]

\* Lines 110-118.
ServerError(error) ==
  [status |-> 500,
   body |-> [error |-> "Failed to fetch stock data",
             details |-> IF error.isError THEN error.message ELSE "Unknown error"]]

\* Lines 42-118, run once Promise.all has settled: with both results when it
\* fulfilled, with the reason of the first rejection when it rejected.
respond(sym, promise) ==
  IF promise.state = "rejected" THEN ServerError(promise.reason)
  ELSE LET data == transformedData(sym, promise.quote, promise.summary)
       IN  IF data.threw THEN ServerError(data.error) ELSE Ok(data.value)

(***************************************************************************)
(* State.                                                                  *)
(*   request      the `symbol` query parameter of the request being served *)
(*   pc           where GET is: before the request, at the await of line   *)
(*                27, or after its return                                  *)
(*   quoteCall    the yahooFinance.quote call of the request               *)
(*   summaryCall  the yahooFinance.quoteSummary call of the request        *)
(*   all          the promise Promise.all returned                         *)
(*   response     what GET returned                                        *)
(*   args, result an input of the transformation and the response to it    *)
(*   symbol, data, loading, error                                          *)
(*                the state of the FinancialViewer component               *)
(*   inflight     the requests of the view that have not settled          *)
(*   history      the outcomes of the last MaxHistory settled fetches      *)
(*   owner        the fetch whose result is displayed: none, the latest    *)
(*                one started, or an earlier one                           *)
(*   zone         the offset of the browser's time zone from UTC           *)
(*   screen       what FinancialViewer renders                             *)
(***************************************************************************)
VARIABLES request, pc, quoteCall, summaryCall, all, response, args, result,
          symbol, data, loading, error, inflight, history, owner, zone, screen

vars == <<request, pc, quoteCall, summaryCall, all, response, args, result,
          symbol, data, loading, error, inflight, history, owner, zone, screen>>
endpointVars == <<request, pc, quoteCall, summaryCall, all, response>>
transformVars == <<args, result>>
viewVars == <<symbol, data, loading, error, inflight, history, owner>>
renderVars == <<zone, screen>>

NotCalled == [state |-> "none", issued |-> 0]
Pending(sym) == [state |-> "pending", issued |-> 1, arg |-> sym]
Resolved(call, value) == [state |-> "resolved", issued |-> call.issued, arg |-> call.arg, value |-> value]
Rejected(call, reason) == [state |-> "rejected", issued |-> call.issued, arg |-> call.arg, reason |-> reason]

QuoteReasons == {Error("quote failed"), NonError}
SummaryReasons == {Error("summary failed"), NonError}

\* A summary whose annual bundle holds a record without a period-end date.
UndatedSummary ==
  [EmptySummary EXCEPT !.incomeStatementHistory = Bundle(Array(<<[k \in StatementFields |-> Undef]>>))]

\* What the summary call of a request resolves with.
SummaryResults == LeafSummaries \cup FullSummaries \cup {UndatedSummary}

EndpointInit ==
  /\ request = Undef
  /\ pc = "idle"
  /\ quoteCall = NotCalled
  /\ summaryCall = NotCalled
  /\ all = [state |-> "none"]
  /\ response = NoResponse

NoTransform ==
  /\ args = Undef
  /\ result = NoResponse

\* useState('') , useState(null), useState(false), useState('') of lines 230-233.
ViewInit ==
  /\ symbol = Str(<<>>)
  /\ data = Null
  /\ loading = FALSE
  /\ error = ""
  /\ inflight = <<>>
  /\ history = <<>>
  /\ owner = "none"

\* Nothing has been rendered.
Blank == [rendered |-> FALSE]

NoRender ==
  /\ zone = 0
  /\ screen = Blank

\* A join that goes on without the summary when the summary call rejects.
promiseAllTolerant(promise, quote, summary) ==
  IF promise.state # "pending" THEN promise
  ELSE IF quote.state = "rejected" THEN [state |-> "rejected", reason |-> quote.reason]
  ELSE IF quote.state = "resolved" /\ summary.state = "rejected"
       THEN [state |-> "fulfilled", quote |-> quote.value, summary |-> EmptySummary]
  ELSE IF quote.state = "resolved" /\ summary.state = "resolved"
       THEN [state |-> "fulfilled", quote |-> quote.value, summary |-> summary.value]
  ELSE promise

\* A join that does not wait for the summary call.
promiseAllEager(promise, quote, summary) ==
  IF promise.state # "pending" THEN promise
  ELSE IF quote.state = "rejected" THEN [state |-> "rejected", reason |-> quote.reason]
  ELSE IF summary.state = "rejected" THEN [state |-> "rejected", reason |-> summary.reason]
  ELSE IF quote.state = "resolved"
       THEN [state |-> "fulfilled", quote |-> quote.value,
             summary |-> IF summary.state = "resolved" THEN summary.value ELSE EmptySummary]
  ELSE promise

\* Promise.all([a, b]): rejected with the reason of the first rejection,
\* fulfilled with both values once both have resolved.
promiseAll(promise, quote, summary) ==
  IF promise.state # "pending" THEN promise
  ELSE IF quote.state = "rejected" THEN [state |-> "rejected", reason |-> quote.reason]
  ELSE IF summary.state = "rejected" THEN [state |-> "rejected", reason |-> summary.reason]
  ELSE IF quote.state = "resolved" /\ summary.state = "resolved"
       THEN [state |-> "fulfilled", quote |-> quote.value, summary |-> summary.value]
  ELSE promise

\* `symbol === null`.
noSymbolNullOnly(param) == param = Null

\* `!symbol` of line 20.
noSymbol(param) == Falsy(param)

\* GET, lines 15-40: a request arrives and the handler runs to its first
\* return or to the await.
GET(param) ==
  /\ pc = "idle"
  /\ request' = param
  /\ IF noSymbol(param)
     THEN /\ response' = BadRequest
          /\ pc' = "responded"
          /\ UNCHANGED <<quoteCall, summaryCall, all>>
     ELSE /\ quoteCall' = Pending(param)
          /\ summaryCall' = Pending(param)
          /\ all' = [state |-> "pending"]
          /\ pc' = "awaiting"
          /\ UNCHANGED response
  /\ UNCHANGED <<transformVars, viewVars, renderVars>>

\* The provider settles the quote call.
QuoteResolves(quote) ==
  /\ quoteCall.state = "pending"
  /\ quoteCall' = Resolved(quoteCall, quote)
  /\ all' = promiseAll(all, quoteCall', summaryCall)
  /\ UNCHANGED <<request, pc, summaryCall, response>>
  /\ UNCHANGED <<transformVars, viewVars, renderVars>>

QuoteRejects(reason) ==
  /\ quoteCall.state = "pending"
  /\ quoteCall' = Rejected(quoteCall, reason)
  /\ all' = promiseAll(all, quoteCall', summaryCall)
  /\ UNCHANGED <<request, pc, summaryCall, response>>
  /\ UNCHANGED <<transformVars, viewVars, renderVars>>

\* The provider settles the summary call.
SummaryResolves(summary) ==
  /\ summaryCall.state = "pending"
  /\ summaryCall' = Resolved(summaryCall, summary)
  /\ all' = promiseAll(all, quoteCall, summaryCall')
  /\ UNCHANGED <<request, pc, quoteCall, response>>
  /\ UNCHANGED <<transformVars, viewVars, renderVars>>

SummaryRejects(reason) ==
  /\ summaryCall.state = "pending"
  /\ summaryCall' = Rejected(summaryCall, reason)
  /\ all' = promiseAll(all, quoteCall, summaryCall')
  /\ UNCHANGED <<request, pc, quoteCall, response>>
  /\ UNCHANGED <<transformVars, viewVars, renderVars>>

\* GET, lines 40-118: the await of line 27 returns or throws and the handler
\* runs to its return.
Respond ==
  /\ pc = "awaiting"
  /\ all.state \in {"fulfilled", "rejected"}
  /\ response' = respond(request, all)
  /\ pc' = "responded"
  /\ UNCHANGED <<request, quoteCall, summaryCall, all>>
  /\ UNCHANGED <<transformVars, viewVars, renderVars>>

\* The request is over; the endpoint keeps nothing of it.
Finish ==
  /\ pc = "responded"
  /\ request' = Undef
  /\ pc' = "idle"
  /\ quoteCall' = NotCalled
  /\ summaryCall' = NotCalled
  /\ all' = [state |-> "none"]
  /\ response' = NoResponse
  /\ UNCHANGED <<transformVars, viewVars, renderVars>>

Init == EndpointInit /\ NoTransform /\ ViewInit /\ NoRender

Next ==
  \/ \E param \in SymbolParams : GET(param)
  \/ \E quote \in QuoteObjs : QuoteResolves(quote)
  \/ \E reason \in QuoteReasons : QuoteRejects(reason)
  \/ \E summary \in SummaryResults : SummaryResolves(summary)
  \/ \E reason \in SummaryReasons : SummaryRejects(reason)
  \/ Respond
  \/ Finish

Spec == Init /\ [][Next]_vars

(***************************************************************************)
(* The transformation alone, over a larger set of provider data.           *)
(***************************************************************************)
Input(sym, quote, summary) == [symbol |-> sym, quote |-> quote, summary |-> summary]

\* The inputs: every quote with two summaries and every ticker; every
\* summary without statements with two quotes; and the summaries in which
\* one bundle ranges over Bundles while the other is absent, empty or holds
\* one record.
TransformInit ==
  /\ EndpointInit
  /\ ViewInit
  /\ NoRender
  /\ result = NoResponse
  /\ \/ \E s \in Symbols \ {<<>>}, q \in QuoteObjs,
           m \in {EmptySummary, FullSummary(MaxNum, Bundle(Array(OneStatement)), Bundle(Array(OneStatement)))} :
           args = Input(Str(s), q, m)
     \/ \E q \in {EmptyQuote, FullQuote(MaxNum)}, m \in LeafSummaries \cup FullSummaries :
           args = Input(Str(<<"a">>), q, m)
     \/ \E b \in Bundles, f \in FixedBundles :
           \/ args = Input(Str(<<"a">>), FullQuote(MaxNum), BundleSummary(b, f))
           \/ args = Input(Str(<<"a">>), FullQuote(MaxNum), BundleSummary(f, b))

\* GET on a request whose two provider calls resolved with the given data.
Transform ==
  /\ result = NoResponse
  /\ result' = respond(args.symbol, [state |-> "fulfilled", quote |-> args.quote, summary |-> args.summary])
  /\ UNCHANGED args
  /\ UNCHANGED <<endpointVars, viewVars, renderVars>>

TransformNext == Transform

SpecTransform == TransformInit /\ [][TransformNext]_vars

(***************************************************************************)
(* The view: fetchData and the controls of FinancialViewer.                *)
(***************************************************************************)
View == [symbol |-> symbol, data |-> data, loading |-> loading, error |-> error, inflight |-> inflight]

\* fetchData without the test of line 237.
fetchDataUnguarded(v) ==
  [v EXCEPT !.loading = TRUE, !.error = "", !.inflight = Append(@, Str(toUpperCase(v.symbol.str)))]

\* fetchData, lines 236-242, up to the await of fetch: the state it sets and
\* the request it sends, whose symbol parameter is symbol.toUpperCase().
fetchData(v) ==
  IF Falsy(v.symbol) THEN v
  ELSE [v EXCEPT !.loading = TRUE, !.error = "", !.inflight = Append(@, Str(toUpperCase(v.symbol.str)))]

\* The catch block without setData(null).
catchErrorKeepingData(v, err) ==
  [v EXCEPT !.error = IF err.isError THEN err.message ELSE "An unexpected error occurred"]

\* The catch block, lines 250-253.
catchError(v, err) ==
  [v EXCEPT !.error = IF err.isError THEN err.message ELSE "An unexpected error occurred",
            !.data = Null]

\* `result.error || 'Failed to fetch data'` of line 246.
errorOf(body) ==
  IF "error" \in DOMAIN body /\ body.error # "" THEN body.error ELSE "Failed to fetch data"

\* Lines 243-256 on a response: response.ok is a status of 200..299.
onResponse(v, resp) ==
  LET settled == IF resp.status \in 200..299
                 THEN [v EXCEPT !.data = resp.body]
                 ELSE catchError(v, Error(errorOf(resp.body)))
  IN  [settled EXCEPT !.loading = FALSE]

\* Lines 250-256 when fetch or response.json() rejects.
onRejection(v, reason) == [catchError(v, reason) EXCEPT !.loading = FALSE]

\* `disabled={!symbol}`: a button that stays enabled while loading.
buttonDisabledWhenEmpty == Falsy(symbol)

\* `disabled={loading || !symbol}` of line 390.
buttonDisabled == loading \/ Falsy(symbol)

Remove(seq, i) == [j \in 1..(Len(seq) - 1) |-> IF j < i THEN seq[j] ELSE seq[j + 1]]
Remember(outcome) ==
  LET h == Append(history, outcome)
  IN  IF Len(h) > MaxHistory THEN Tail(h) ELSE h

Becomes(v) ==
  /\ symbol' = v.symbol
  /\ data' = v.data
  /\ loading' = v.loading
  /\ error' = v.error

\* What the endpoint answers a request of the view with, by the outcome of
\* its two provider calls.
endpoint(param, promise) == IF noSymbol(param) THEN BadRequest ELSE respond(param, promise)

Outcomes ==
  {[state |-> "rejected", reason |-> r] : r \in QuoteReasons \cup SummaryReasons}
    \cup {[state |-> "fulfilled", quote |-> q, summary |-> m] :
            q \in {EmptyQuote, FullQuote(MaxNum)},
            m \in {EmptySummary, UndatedSummary,
                    FullSummary(MaxNum, Bundle(Array(OneStatement)), Bundle(Array(OneStatement)))}}

\* What fetch or response.json() rejects with.
FetchFailures == {Error("Failed to fetch"), Error("Unexpected end of JSON input"), NonError}

\* onChange of the input, line 385.
setSymbol(s) ==
  /\ symbol # Str(s)
  /\ symbol' = Str(s)
  /\ UNCHANGED <<data, loading, error, inflight, history, owner>>
  /\ UNCHANGED <<endpointVars, transformVars, renderVars>>

\* onClick of the button, lines 388-391.
Click ==
  /\ ~buttonDisabled
  /\ Becomes(fetchData(View))
  /\ inflight' = fetchData(View).inflight
  /\ owner' = IF data' = Null THEN "none" ELSE "earlier"
  /\ UNCHANGED history
  /\ UNCHANGED <<endpointVars, transformVars, renderVars>>

\* The response to a request arrives.
ResponseArrives(i, promise) ==
  /\ i \in 1..Len(inflight)
  /\ LET resp == endpoint(inflight[i], promise)
     IN  /\ Becomes(onResponse(View, resp))
         /\ history' = Remember(IF resp.status \in 200..299 THEN "success" ELSE "error")
  /\ inflight' = Remove(inflight, i)
  /\ owner' = IF i = Len(inflight) THEN "latest" ELSE "earlier"
  /\ UNCHANGED <<endpointVars, transformVars, renderVars>>

\* A request fails without a response the view can read.
FetchRejects(i, reason) ==
  /\ i \in 1..Len(inflight)
  /\ Becomes(onRejection(View, reason))
  /\ history' = Remember("error")
  /\ inflight' = Remove(inflight, i)
  /\ owner' = IF i = Len(inflight) THEN "latest" ELSE "earlier"
  /\ UNCHANGED <<endpointVars, transformVars, renderVars>>

ViewNext ==
  \/ \E s \in Symbols : setSymbol(s)
  \/ Click
  \/ \E i \in 1..Len(inflight), promise \in Outcomes : ResponseArrives(i, promise)
  \/ \E i \in 1..Len(inflight), reason \in FetchFailures : FetchRejects(i, reason)

SpecView == Init /\ [][ViewNext]_vars

(***************************************************************************)
(* Properties of the endpoint.                                             *)
(***************************************************************************)
Settled(call) == call.state \in {"resolved", "rejected"}
Answered == pc = "responded"

\* C1: a request whose symbol parameter is missing or empty is answered with
\* status 400 and the error "Stock symbol is required", and neither provider
\* call has been issued for it.
C1_MissingSymbolRejected ==
  (Answered /\ request \in {Null, Str(<<>>)})
    => /\ response = [status |-> 400, body |-> [error |-> "Stock symbol is required"]]
       /\ quoteCall.issued = 0
       /\ summaryCall.issued = 0

C1_Witness ==
  /\ Answered
  /\ request = Str(<<>>)
  /\ response.status = 400

\* C2: a 200 response is produced only when both provider calls resolved; if
\* either call rejected the response is a 500 that carries none of quote,
\* fundamentals and financials, and a 200 carries all three.
C2_AllOrNothing ==
  (Answered /\ quoteCall.issued > 0)
    => /\ response.status \in {200, 500}
       /\ response.status = 200
            => /\ quoteCall.state = "resolved"
               /\ summaryCall.state = "resolved"
               /\ DOMAIN response.body = {"quote", "fundamentals", "financials"}
       /\ (quoteCall.state = "rejected" \/ summaryCall.state = "rejected")
            => /\ response.status = 500
               /\ DOMAIN response.body = {"error", "details"}

C2_Witness ==
  /\ Answered
  /\ quoteCall.state = "resolved"
  /\ summaryCall.state = "rejected"
  /\ response.status = 500

\* C3 as stated: whenever a request with a symbol has been answered, both
\* provider calls have settled.
C3_AnsweredAfterBothSettled ==
  (Answered /\ quoteCall.issued > 0) => (Settled(quoteCall) /\ Settled(summaryCall))

\* C3 amended: the two calls are issued together; a 200 response is sent only
\* after both calls have resolved, and a response sent while a call is still
\* pending is a 500 sent after the other call rejected.
C3_JoinedOrFailedFast ==
  [][/\ quoteCall'.issued = summaryCall'.issued
     /\ (pc = "awaiting" /\ pc' = "responded")
          => \/ quoteCall.state = "resolved" /\ summaryCall.state = "resolved"
             \/ /\ response'.status = 500
                /\ quoteCall.state = "rejected" \/ summaryCall.state = "rejected"]_vars

C3_Witness ==
  /\ Answered
  /\ response.status = 500
  /\ quoteCall.state = "rejected"
  /\ summaryCall.state = "pending"

QuoteKeys == {"price", "changePercent", "volume", "previousClose", "dayHigh", "dayLow", "averageVolume"}
FundamentalsKeys == {"marketCap", "peRatio", "eps", "profitMargin", "revenue", "fiftyTwoWeekLow",
                     "fiftyTwoWeekHigh", "companyName", "sector", "industry", "beta", "dividendYield",
                     "priceToBook"}

\* The provider field each output field is read from.
QuoteSource ==
  [price |-> "regularMarketPrice", changePercent |-> "regularMarketChangePercent",
   volume |-> "regularMarketVolume", previousClose |-> "regularMarketPreviousClose",
   dayHigh |-> "regularMarketDayHigh", dayLow |-> "regularMarketDayLow",
   averageVolume |-> "averageDailyVolume3Month"]
FundamentalsSource ==
  [peRatio |-> <<"summaryDetail", "trailingPE">>, eps |-> <<"defaultKeyStatistics", "trailingEps">>,
   profitMargin |-> <<"financialData", "profitMargins">>, revenue |-> <<"financialData", "totalRevenue">>,
   fiftyTwoWeekLow |-> <<"summaryDetail", "fiftyTwoWeekLow">>,
   fiftyTwoWeekHigh |-> <<"summaryDetail", "fiftyTwoWeekHigh">>,
   sector |-> <<"assetProfile", "sector">>, industry |-> <<"assetProfile", "industry">>,
   beta |-> <<"defaultKeyStatistics", "beta">>, dividendYield |-> <<"summaryDetail", "dividendYield">>,
   priceToBook |-> <<"defaultKeyStatistics", "priceToBook">>]

Transformed == result.status = 200
Statements(resp, periodicity) == resp.body.financials.financial_statements[periodicity].income_statement
Entries(resp) ==
  {Statements(resp, "quarterly")[i].entry : i \in 1..Len(Statements(resp, "quarterly"))}
    \cup {Statements(resp, "annual")[i].entry : i \in 1..Len(Statements(resp, "annual"))}

\* C5: whatever provider fields are populated, the body of a 200 response has
\* the same keys: every field of quote and fundamentals, both income_statement
\* mappings, and in every entry the four metrics the endpoint declares; a
\* field the provider left out is null, not omitted.
C5_ConstantKeySet ==
  Transformed
    => /\ DOMAIN result.body = {"quote", "fundamentals", "financials"}
       /\ DOMAIN result.body.quote = QuoteKeys
       /\ DOMAIN result.body.fundamentals = FundamentalsKeys
       /\ DOMAIN result.body.financials = {"financial_statements"}
       /\ DOMAIN result.body.financials.financial_statements = {"quarterly", "annual"}
       /\ \A p \in {"quarterly", "annual"} :
            DOMAIN result.body.financials.financial_statements[p] = {"income_statement"}
       /\ \A e \in Entries(result) : DOMAIN e = ReadMetrics
       /\ \A k \in QuoteKeys :
            args.quote[QuoteSource[k]] = Undef => result.body.quote[k] = Null
       /\ args.quote.marketCap = Undef => result.body.fundamentals.marketCap = Null
       /\ \A k \in DOMAIN FundamentalsSource :
            Opt(args.summary[FundamentalsSource[k][1]], FundamentalsSource[k][2]) = Undef
              => result.body.fundamentals[k] = Null

C5_Witness ==
  /\ Transformed
  /\ args.quote = EmptyQuote
  /\ args.summary = EmptySummary
  /\ result.body.quote.price = Null
  /\ result.body.fundamentals.sector = Null

\* C6: a ratio-valued fundamental (profit margin, dividend yield) that the
\* provider supplies, the fraction 0 and negative fractions included, is
\* output as the fraction times 100, and is null only when it is missing.
C6_RatioTimesHundred ==
  Transformed
    => LET margin == Opt(args.summary.financialData, "profitMargins")
           yield == Opt(args.summary.summaryDetail, "dividendYield")
       IN  /\ result.body.fundamentals.profitMargin
                = IF margin = Undef THEN Null ELSE Num(margin.num * 100)
           /\ result.body.fundamentals.dividendYield
                = IF yield = Undef THEN Null ELSE Num(yield.num * 100)

\* The rows of the view's table, renderFinancialTable lines 334-343.
metrics ==
  <<"totalRevenue", "grossProfit", "operatingIncome", "ebitda", "researchDevelopment",
    "sellingGeneralAdministrative", "totalOperatingExpenses", "netIncome">>

\* C7: every income-statement entry of a 200 response, quarterly or annual,
\* has exactly the eight metrics of the view's table as its keys.
C7_EightMetricsPerEntry ==
  Transformed => \A e \in Entries(result) : DOMAIN e = {metrics[i] : i \in 1..Len(metrics)}

Other(module) ==
  IF module = "incomeStatementHistory" THEN "incomeStatementHistoryQuarterly" ELSE "incomeStatementHistory"
Periodicity(module) == IF module = "incomeStatementHistory" THEN "annual" ELSE "quarterly"
BundleModules == {"incomeStatementHistory", "incomeStatementHistoryQuarterly"}

\* The response had the absent bundle been present, with one record.
WithBundle(module) ==
  respond(args.symbol,
          [state |-> "fulfilled", quote |-> args.quote,
           summary |-> [args.summary EXCEPT ![module] = Bundle(Array(OneStatement))]])

\* Every record of the bundle has a valid period-end date.
Dated(bundle) ==
  LET list == Opt(bundle, "incomeStatementHistory")
  IN  list \in {Undef, Null} \/ \A i \in 1..Len(list.array) : list.array[i].endDate # Undef

\* C8 as stated: when a bundle is absent from the summary the response is a
\* 200, the mapping of that periodicity is empty and the mapping of the other
\* periodicity is what it is with the bundle present.
C8_AbsentBundleSucceeds ==
  result # NoResponse
    => \A m \in BundleModules :
         args.summary[m] \in AbsentBundles
           => /\ result.status = 200
              /\ Statements(result, Periodicity(m)) = <<>>
              /\ WithBundle(m).status = 200
              /\ Statements(result, Periodicity(Other(m))) = Statements(WithBundle(m), Periodicity(Other(m)))

\* C8 amended: when a bundle is absent from the summary and every record of
\* the other bundle has a valid period-end date, the response is a 200, the
\* mapping of the absent periodicity is empty and the mapping of the other
\* one is what it is with the bundle present; when a record of the other
\* bundle has no valid period-end date the response is a 500.
C8_AbsentBundleIsEmpty ==
  result # NoResponse
    => \A m \in BundleModules :
         args.summary[m] \in AbsentBundles
           => IF Dated(args.summary[Other(m)])
              THEN /\ result.status = 200
                   /\ Statements(result, Periodicity(m)) = <<>>
                   /\ WithBundle(m).status = 200
                   /\ Statements(result, Periodicity(Other(m)))
                        = Statements(WithBundle(m), Periodicity(Other(m)))
              ELSE result.status = 500

C8_Witness ==
  /\ Transformed
  /\ args.summary.incomeStatementHistory = Undef
  /\ Len(Statements(result, "quarterly")) = 2
  /\ Statements(result, "annual") = <<>>

(***************************************************************************)
(* Properties of the view.                                                 *)
(***************************************************************************)
Starts == Len(inflight') > Len(inflight)
Settles == Len(inflight') < Len(inflight)
Success == ~loading /\ data # Null /\ error = ""
Failure == ~loading /\ error # "" /\ data = Null
Idle == ~loading /\ data = Null /\ error = "" /\ history = <<>>

\* C9: the view is Idle, Loading, Success or Error; with an empty symbol
\* fetchData changes nothing and sends nothing; a fetch starts only with a
\* non-empty symbol and sets loading; when the request settles loading is
\* false and the view is in Success or in Error; and data and error change
\* only when a request settles or a fetch starts, so that from Success or
\* Error the view reaches Success or Error again only through Loading.
C9_FetchCycle ==
  /\ [](loading \/ Idle \/ Success \/ Failure)
  /\ [](Falsy(symbol) => fetchData(View) = View)
  /\ [][/\ Starts => (~Falsy(symbol) /\ ~loading /\ loading')
        /\ Settles => (loading /\ (Success' \/ Failure'))
        /\ (~Starts /\ ~Settles) => UNCHANGED <<data, loading, error>>]_vars

C9_Witness ==
  /\ loading
  /\ data # Null
  /\ history = <<"error", "success">>

\* C10: whenever the error message is not empty the data is null.
C10_NoStaleDataWithError == error # "" => data = Null

C10_Witness ==
  /\ history = <<"success", "error">>
  /\ error # ""
  /\ data = Null
  /\ ~loading

(***************************************************************************)
(* What FinancialViewer renders, lines 259-431.  A displayed text is a     *)
(* record that names its format and the number it was made from; a date    *)
(* key "YYYY-MM-DD" is its day number, and the keys of four-digit years    *)
(* compare as strings in the order of their days.                          *)
(***************************************************************************)
\* obj?.field of a parsed JSON object: undefined when the key is missing.
Prop(obj, field) ==
  IF obj \in {Undef, Null} THEN Undef
  ELSE IF field \in DOMAIN obj THEN obj[field] ELSE Undef

\* value == null
Nullish(v) == v \in {Undef, Null}

NA == [text |-> "N/A"]
\* Intl.NumberFormat en-US, currency USD, compact notation.
Currency(n) == [text |-> "currency", of |-> n]
\* value.toFixed(2) followed by "%".
Percent(n) == [text |-> "percent", of |-> n]
\* value.toFixed(2)
Fixed(n) == [text |-> "fixed", of |-> n]
\* value.toLocaleString()
Grouped(n) == [text |-> "grouped", of |-> n]

formatValueFalsy(value, isPercentage) ==
  IF Falsy(value) THEN NA
  ELSE IF isPercentage THEN Percent(value.num)
  ELSE Currency(value.num)

\* Lines 259-270.
formatValue(value, isPercentage) ==
  IF Nullish(value) THEN NA
  ELSE IF isPercentage THEN Percent(value.num)
  ELSE Currency(value.num)

\* Lines 272-276.
formatPercentageChange(value) ==
  IF Nullish(value) THEN NA
  ELSE [text |-> "change",
        color |-> IF value.num >= 0 THEN "text-green-600" ELSE "text-red-600",
        sign |-> IF value.num >= 0 THEN "+" ELSE "",
        of |-> value.num]

\* Lines 295 and 318, value?.toFixed(2) || 'N/A' and
\* value?.toLocaleString() || 'N/A': the text of a number is never empty.
toFixedOrNA(value) == IF Nullish(value) THEN NA ELSE Fixed(value.num)
toLocaleStringOrNA(value) == IF Nullish(value) THEN NA ELSE Grouped(value.num)

\* Lines 278-323: the slots of the header grid.
renderFinancialMetrics(d) ==
  IF Falsy(d) THEN Null
  ELSE LET quote == Prop(d, "quote")
           fundamentals == Prop(d, "fundamentals")
       IN  [price |-> formatValue(Prop(quote, "price"), FALSE),
            changePercent |-> formatPercentageChange(Prop(quote, "changePercent")),
            marketCap |-> formatValue(Prop(fundamentals, "marketCap"), FALSE),
            peRatio |-> toFixedOrNA(Prop(fundamentals, "peRatio")),
            eps |-> formatValue(Prop(fundamentals, "eps"), FALSE),
            revenue |-> formatValue(Prop(fundamentals, "revenue"), FALSE),
            profitMargin |-> formatValue(Prop(fundamentals, "profitMargin"), TRUE),
            fiftyTwoWeekLow |-> formatValue(Prop(fundamentals, "fiftyTwoWeekLow"), FALSE),
            fiftyTwoWeekHigh |-> formatValue(Prop(fundamentals, "fiftyTwoWeekHigh"), FALSE),
            volume |-> toLocaleStringOrNA(Prop(quote, "volume"))]

\* Lines 218-227.
metricLabels ==
  [totalRevenue |-> "Total Revenue", grossProfit |-> "Gross Profit",
   operatingIncome |-> "Operating Income", netIncome |-> "Net Income",
   ebitda |-> "EBITDA", researchDevelopment |-> "R&D Expenses",
   sellingGeneralAdministrative |-> "SG&A Expenses",
   totalOperatingExpenses |-> "Total Operating Expenses"]

\* Object.keys of a mapping: its keys in insertion order.
keys(statements) == [i \in 1..Len(statements) |-> statements[i].date]

RECURSIVE sort(_)
\* Array.prototype.sort without a comparator: ascending.
sort(s) ==
  IF s = <<>> THEN <<>>
  ELSE LET least == CHOOSE i \in 1..Len(s) : \A j \in 1..Len(s) : s[i] <= s[j]
       IN  <<s[least]>> \o sort(Remove(s, least))

reverse(s) == [i \in 1..Len(s) |-> s[Len(s) + 1 - i]]

datesUnreversed(statements) == sort(keys(statements))

\* Line 331.
dates(statements) == reverse(sort(keys(statements)))

\* statements[date]
Lookup(statements, date) ==
  statements[CHOOSE i \in 1..Len(statements) : statements[i].date = date].entry

\* The time zones of the browser: behind UTC, UTC, ahead of UTC.
Zones == {-1, 0, 1}

\* Lines 353-357: new Date(date) is midnight UTC of the day, and
\* toLocaleDateString gives the calendar day of that instant in the
\* browser's zone (timestamps count half days).
toLocaleDateString(date, z) == [day |-> (2 * date + z) \div 2]

Placeholder(type) == [kind |-> "placeholder", text |-> <<"No ", type, " data available">>]
Nothing == [kind |-> "nothing"]

\* Lines 325-377.
renderFinancialTable(d, type, z) ==
  LET period == Prop(Prop(Prop(d, "financials"), "financial_statements"), type)
      statements == period.income_statement
      columns == dates(statements)
  IN  IF Nullish(period) \/ "income_statement" \notin DOMAIN period THEN Placeholder(type)
      ELSE IF Len(columns) = 0 THEN Nothing
      ELSE [kind |-> "table",
            head |-> [i \in 1..Len(columns) |->
                        [key |-> columns[i], label |-> toLocaleDateString(columns[i], z)]],
            body |-> [r \in 1..Len(metrics) |->
                        [key |-> metrics[r],
                         label |-> metricLabels[metrics[r]],
                         cells |-> [i \in 1..Len(columns) |->
                                      formatValue(Prop(Lookup(statements, columns[i]), metrics[r]), FALSE)]]]]

\* Lines 379-431.
FinancialViewer ==
  [rendered |-> TRUE,
   input |-> symbol,
   button |-> [disabled |-> buttonDisabled,
               label |-> IF loading THEN "Loading..." ELSE "Fetch Data"],
   alert |-> IF error = "" THEN Null ELSE [description |-> error],
   panel |-> IF Falsy(data) THEN Null
             ELSE [title |-> LET name == Prop(Prop(data, "fundamentals"), "companyName")
                             IN  IF Falsy(name) THEN symbol ELSE name,
                   grid |-> renderFinancialMetrics(data),
                   quarterly |-> renderFinancialTable(data, "quarterly", zone),
                   annual |-> renderFinancialTable(data, "annual", zone)]]

(***************************************************************************)
(* The rendering alone, over bodies of the ApiResponse type (lines         *)
(* 179-216) and over the bodies the endpoint produces.                     *)
(***************************************************************************)
Values == {Null} \cup NumVals
MetricKeys == {metrics[r] : r \in 1..Len(metrics)}
Days == {isoDate(Num(t)) : t \in 0..MaxTs}
Periodicities == {"quarterly", "annual"}

\* Lines 168-177, and the four metrics the endpoint sends.
EntryObjs == {[k \in MetricKeys |-> v] : v \in Values} \cup {[k \in ReadMetrics |-> v] : v \in Values}

Distinct(mapping) ==
  \A i, j \in 1..Len(mapping) : mapping[i].date = mapping[j].date => i = j

Financials(quarterly, annual) ==
  [financial_statements |->
     [quarterly |-> [income_statement |-> quarterly], annual |-> [income_statement |-> annual]]]

Texts == {"companyName", "sector", "industry"}

Body(v, financials) ==
  [quote |-> [k \in QuoteKeys |-> v],
   fundamentals |-> [k \in FundamentalsKeys |-> IF k \in Texts THEN SomeName ELSE v],
   financials |-> financials]

OneEntry == <<[date |-> 0, entry |-> [k \in ReadMetrics |-> Null]]>>

\* Bodies in which a part the type declares is not there.
PartialBodies ==
  {[quote |-> Body(Null, Null).quote, fundamentals |-> Body(Null, Null).fundamentals],
   [financials |-> Financials(OneEntry, <<>>)],
   Body(Null, Null),
   Body(Null, [financial_statements |-> Null]),
   Body(Null, [financial_statements |-> [annual |-> [income_statement |-> OneEntry]]]),
   Body(Null, [financial_statements |-> [quarterly |-> Null, annual |-> [income_statement |-> <<>>]]])}

RenderInit ==
  /\ EndpointInit
  /\ NoTransform
  /\ symbol = Str(<<"A">>)
  /\ loading = FALSE
  /\ error = ""
  /\ inflight = <<>>
  /\ history = <<"success">>
  /\ owner = "latest"
  /\ zone \in Zones
  /\ screen = Blank
  /\ \/ \E v \in Values, m \in SeqsUpTo([date : Days, entry : EntryObjs], MaxStatements) :
          /\ Distinct(m)
          /\ \/ data = Body(v, Financials(m, <<>>))
             \/ data = Body(v, Financials(OneEntry, m))
     \/ data \in PartialBodies
     \/ \E v \in NumVals, k \in QuoteKeys :
          data = [Body(Null, Financials(OneEntry, <<>>)) EXCEPT !.quote[k] = v]
     \/ \E v \in NumVals, k \in FundamentalsKeys \ Texts :
          data = [Body(Null, Financials(OneEntry, <<>>)) EXCEPT !.fundamentals[k] = v]
     \/ \E q \in {EmptyQuote, FullQuote(MaxNum)}, b \in Bundles :
          LET t == transformedData(symbol, q, BundleSummary(b, Bundle(Array(OneStatement))))
          IN  /\ ~t.threw
              /\ data = t.value

\* React renders the component from its state.
Render ==
  /\ screen = Blank
  /\ screen' = FinancialViewer
  /\ UNCHANGED zone
  /\ UNCHANGED <<endpointVars, transformVars, viewVars>>

RenderNext == Render

SpecRender == RenderInit /\ [][RenderNext]_vars

(***************************************************************************)
(* Properties of the rendering.                                            *)
(***************************************************************************)
Rendered == screen # Blank

\* The period of a body has an income_statement mapping.
HasMapping(d, type) ==
  LET period == Prop(Prop(Prop(d, "financials"), "financial_statements"), type)
  IN  ~Nullish(period) /\ "income_statement" \in DOMAIN period

MappingOf(d, type) == d.financials.financial_statements[type].income_statement

\* C11: for each periodicity, when the income_statement mapping of the
\* response is absent or is the empty mapping, the view shows the
\* placeholder "No <periodicity> data available".
C11_NoDataPlaceholder ==
  Rendered =>
    \A type \in Periodicities :
      (~HasMapping(data, type) \/ MappingOf(data, type) = <<>>)
        => screen.panel[type] = Placeholder(type)

\* The row labels of the table, top to bottom: the metric list of the claim.
RowLabels ==
  <<"Total Revenue", "Gross Profit", "Operating Income", "EBITDA", "R&D Expenses",
    "SG&A Expenses", "Total Operating Expenses", "Net Income">>

SlotSource ==
  [price |-> <<"quote", "price">>, changePercent |-> <<"quote", "changePercent">>,
   marketCap |-> <<"fundamentals", "marketCap">>, peRatio |-> <<"fundamentals", "peRatio">>,
   eps |-> <<"fundamentals", "eps">>, revenue |-> <<"fundamentals", "revenue">>,
   profitMargin |-> <<"fundamentals", "profitMargin">>,
   fiftyTwoWeekLow |-> <<"fundamentals", "fiftyTwoWeekLow">>,
   fiftyTwoWeekHigh |-> <<"fundamentals", "fiftyTwoWeekHigh">>,
   volume |-> <<"quote", "volume">>]

SlotValue(d, slot) == Prop(Prop(d, SlotSource[slot][1]), SlotSource[slot][2])

\* A displayed text shows the value: the placeholder for null or a missing
\* value, and for a number a formatted text of that number.
Shows(text, v) ==
  IF Nullish(v) THEN text = NA
  ELSE text # NA /\ text.of = v.num

\* C13: every slot of the header grid and every cell of a table displays
\* "N/A" when its value is null or missing, and a formatted number, not the
\* placeholder, when its value is a number, zero included.
C13_AbsentShowsNA ==
  Rendered =>
    /\ \A slot \in DOMAIN SlotSource : Shows(screen.panel.grid[slot], SlotValue(data, slot))
    /\ \A type \in Periodicities :
         screen.panel[type].kind = "table"
           => LET table == screen.panel[type]
              IN  \A r \in 1..Len(table.body), i \in 1..Len(table.head) :
                    Shows(table.body[r].cells[i],
                          Prop(Lookup(MappingOf(data, type), table.head[i].key), table.body[r].key))

\* One grid shows a zero as a number next to placeholders, over a table
\* with a placeholder cell.
C13_Witness ==
  /\ Rendered
  /\ SlotValue(data, "price") = Num(0)
  /\ screen.panel.grid.price = Currency(0)
  /\ screen.panel.grid.volume = NA
  /\ screen.panel.quarterly.kind = "table"
  /\ screen.panel.quarterly.body[4].cells[1] = NA

(***************************************************************************)
(* Properties of the endpoint's failures.                                  *)
(***************************************************************************)
\* The details the catch block reports for what was thrown.
Details(thrown) == IF thrown.isError THEN thrown.message ELSE "Unknown error"

Failed500(thrown) ==
  [status |-> 500, body |-> [error |-> "Failed to fetch stock data", details |-> Details(thrown)]]

\* The reasons of the provider calls that have rejected.
Rejections ==
  {call.reason : call \in {c \in {quoteCall, summaryCall} : c.state = "rejected"}}

\* C14: a request that carries a symbol is answered once, with status 200 or
\* 500; a failure after the symbol check, a provider rejection or an
\* exception of the transformation such as a missing period-end date, is
\* answered with status 500, the error "Failed to fetch stock data" and the
\* message of what was thrown as details, "Unknown error" when that is not
\* an Error; no failure yields a 200, and no provider call is issued twice.
C14_FailureIs500 ==
  [][/\ (Answered /\ ~noSymbol(request))
          => /\ response.status \in {200, 500}
             /\ all.state = "rejected"
                  => /\ all.reason \in Rejections
                     /\ response = Failed500(all.reason)
             /\ (all.state = "fulfilled" /\ ~(Dated(all.summary.incomeStatementHistoryQuarterly)
                                                /\ Dated(all.summary.incomeStatementHistory)))
                  => response = Failed500(Error("Invalid time value"))
             /\ response.status = 200
                  => /\ Rejections = {}
                     /\ Dated(all.summary.incomeStatementHistoryQuarterly)
                     /\ Dated(all.summary.incomeStatementHistory)
             /\ response' = response \/ pc' = "idle"
     /\ quoteCall'.issued <= 1
     /\ summaryCall'.issued <= 1
     /\ (pc = "awaiting" /\ pc' = "responded") => response = NoResponse]_vars

\* Both calls resolved and a record without a period-end date made the
\* transformation throw.
C14_Witness ==
  /\ Answered
  /\ all.state = "fulfilled"
  /\ response.status = 500
  /\ response.body.details = "Invalid time value"

(***************************************************************************)
(* Properties of zero values.                                              *)
(***************************************************************************)
\* The numeric fields of a body, as section and key.
NumericFields ==
  {<<"quote", k>> : k \in QuoteKeys} \cup {<<"fundamentals", k>> : k \in FundamentalsKeys \ Texts}

\* The provider value a numeric field of the body is made from.
ProviderValue(field) ==
  IF field[1] = "quote" THEN args.quote[QuoteSource[field[2]]]
  ELSE IF field[2] = "marketCap" THEN args.quote.marketCap
  ELSE Opt(args.summary[FundamentalsSource[field[2]][1]], FundamentalsSource[field[2]][2])

\* The records of a bundle that decide the entry of their date: those no
\* later record of the list shares the date with.
Deciding(list) ==
  {i \in 1..Len(list) :
     \A j \in (i + 1)..Len(list) : isoDate(list[j].endDate) # isoDate(list[i].endDate)}

\* C15: a provider number 0 is exposed as null, like a missing field: in a
\* 200 response no numeric field of quote, of fundamentals or of an
\* income-statement entry is 0, and the view displays "N/A" where the
\* provider reported a zero.
C15_ZeroExposedAsNull ==
  Transformed =>
    LET body == result.body
        grid == renderFinancialMetrics(body)
    IN  /\ \A field \in NumericFields :
             /\ body[field[1]][field[2]] # Num(0)
             /\ ProviderValue(field) = Num(0) => body[field[1]][field[2]] = Null
        /\ \A slot \in DOMAIN SlotSource :
             ProviderValue(SlotSource[slot]) = Num(0) => grid[slot] = NA
        /\ \A entry \in Entries(result) : \A k \in DOMAIN entry : entry[k] # Num(0)
        /\ \A module \in BundleModules :
             LET list == statementsOf(args.summary[module]).array
                 mapping == Statements(result, Periodicity(module))
                 table == renderFinancialTable(body, Periodicity(module), zone)
             IN  \A i \in Deciding(list) : \A r \in 1..Len(metrics) :
                   (metrics[r] \in ReadMetrics /\ list[i][metrics[r]] = Num(0))
                     => /\ Lookup(mapping, isoDate(list[i].endDate))[metrics[r]] = Null
                        /\ \E c \in 1..Len(table.head) :
                             /\ table.head[c].key = isoDate(list[i].endDate)
                             /\ table.body[r].cells[c] = NA

\* A quote of zeros, answered with nulls and displayed as placeholders.
C15_Witness ==
  /\ Transformed
  /\ args.quote.regularMarketPrice = Num(0)
  /\ args.quote.regularMarketVolume = Num(0)
  /\ result.body.quote.price = Null
  /\ renderFinancialMetrics(result.body).price = NA
  /\ renderFinancialMetrics(result.body).volume = NA

(***************************************************************************)
(* Properties of the view's fetches.                                       *)
(***************************************************************************)
\* Something of a fetch is displayed: its data or its error.
Displayed == data # Null \/ error # ""

\* At most one fetch is in flight, loading is true exactly while it is, and
\* no error is displayed while loading.
Serialized ==
  /\ Len(inflight) <= 1
  /\ loading <=> inflight # <<>>
  /\ loading => error = ""

\* C16 as stated: the view never has two fetches in flight, loading is true
\* from the start of a fetch until it settles, the error message is empty
\* while loading, and the data or error displayed always belongs to the
\* most recently started fetch.
C16_DisplayedIsLatest ==
  /\ Serialized
  /\ Displayed => owner = "latest"

\* C16 amended: the view never has two fetches in flight; a fetch starts
\* only through the enabled button, loading is true from its start until it
\* settles and the error message is empty meanwhile; the fetch that settles
\* is the one most recently started, and once it has settled the data or
\* error displayed belongs to it, while as long as it is loading the data of
\* the previous successful fetch, if any, stays displayed.
C16_OneFetchAtATime ==
  [][/\ Serialized /\ Serialized'
     /\ Starts => ~buttonDisabled /\ ~loading /\ loading' /\ error' = ""
     /\ Settles => inflight' = <<>> /\ ~loading' /\ Displayed' /\ owner' = "latest"
     /\ (~loading /\ Displayed) => owner = "latest"
     /\ (loading /\ Displayed) => owner = "earlier" /\ data # Null
     /\ Starts => data' = data]_vars

\* A second fetch is in flight while the data of the first is displayed.
C16_Witness ==
  /\ loading
  /\ Len(inflight) = 1
  /\ data # Null
  /\ owner = "earlier"
  /\ history = <<"success">>

====
